---- MODULE Spec2Model ----
(***************************************************************************)
(* A model of abz, an archive converter: the application state machine of  *)
(* src/app.rs (App::update, the batch sipper and its worker tasks), the    *)
(* transcoders of src/archive.rs and the ProcessRead wrapper.              *)
(*                                                                         *)
(* Three specifications share the module:                                  *)
(*   Spec      the application, its dialogs and the batches in flight;     *)
(*   ConvSpec  one call of Archive::convert, read by read;                 *)
(*   ReadSpec  ProcessRead::read over a byte source.                       *)
(***************************************************************************)
EXTENDS Integers, Sequences, FiniteSets, TLC

\* ------------------------------------------------------------------------
\* Bounds of the model
\* ------------------------------------------------------------------------
\* Longest archive sequence the application holds.
MaxArchives == 2
\* Batches started in one run of the application.
MaxBatches == 2
\* Work units (archives handed to a worker) dispatched in one run.
MaxUnits == 2
\* Messages the user produces through the widgets in one run.
MaxInputs == 4
\* Progress callbacks one worker makes during its conversion.
MaxProgress == 1
\* pick_files / pick_folder tasks pending at the same time.
MaxPicks == 1
\* pick_save_folder tasks pending at the same time.
MaxSaves == 2
\* Events forwarded by a sipper and not yet handled by App::update.
OutCap == 1

\* ------------------------------------------------------------------------
\* Format (src/format.rs)
\* ------------------------------------------------------------------------
Format == {"Zip", "TarGz", "SevenZ"}

\* Format::ALL of the build without the 7z feature, the choices of the
\* pick_list
FormatALL == {"Zip", "TarGz"}

\* Format::default()
FormatDefault == "Zip"

\* ------------------------------------------------------------------------
\* Progress fractions: (read_size as f64 / total_size as f64) as f32.
\* A fraction is kept as the pair of its operands; the total 0 gives the
\* IEEE results NaN (0/0) and +inf (n/0), and the total u128::MAX gives a
\* value of n * 2^-128.  The two casts round to nearest, which keeps the
\* order of the quotients and leaves 0 and 1 exact, so the order and the
\* tests against 0 and 1 are decided on the operands.
\* ------------------------------------------------------------------------
\* Stands for u128::MAX, the total used when a zip cannot tell its size.
U128Max == -1

RECURSIVE Gcd(_, _)
Gcd(a, b) == IF b = 0 THEN a ELSE Gcd(b, a % b)

Ratio(read, total) ==
    IF total = U128Max THEN
        IF read = 0 THEN [k |-> "num", n |-> 0, d |-> 1]
        ELSE [k |-> "tiny", n |-> read, d |-> 1]
    ELSE IF total = 0 THEN
        IF read = 0 THEN [k |-> "nan", n |-> 0, d |-> 0]
        ELSE [k |-> "inf", n |-> 1, d |-> 0]
    ELSE [k |-> "num", n |-> read \div Gcd(read, total),
                       d |-> total \div Gcd(read, total)]

\* The literal 0. of the dispatch event and the 1.0 of a finished copy.
Zero == Ratio(0, 1)
One == Ratio(1, 1)

\* f32::partial_cmp: "lt", "eq", "gt", or "none" when an operand is NaN.
PartialCmp(a, b) ==
    IF a.k = "nan" \/ b.k = "nan" THEN "none"
    ELSE IF a.k = "inf" /\ b.k = "inf" THEN "eq"
    ELSE IF a.k = "inf" THEN "gt"
    ELSE IF b.k = "inf" THEN "lt"
    ELSE IF a.k = "tiny" /\ b.k = "tiny" THEN
        IF a.n < b.n THEN "lt" ELSE IF a.n = b.n THEN "eq" ELSE "gt"
    ELSE IF a.k = "tiny" THEN "lt"  \* 0 < n * 2^-128 < any other positive
    ELSE IF b.k = "tiny" THEN IF a.n = 0 THEN "lt" ELSE "gt"
    ELSE IF a.n * b.d < b.n * a.d THEN "lt"
    ELSE IF a.n * b.d = b.n * a.d THEN "eq" ELSE "gt"

\* a <= b as f32 (false when either is NaN)
FLeq(a, b) == PartialCmp(a, b) \in {"lt", "eq"}

\* 0.0 <= a <= 1.0
InUnit(a) == FLeq(Zero, a) /\ FLeq(a, One)

\* ------------------------------------------------------------------------
\* Status (src/status.rs)
\* ------------------------------------------------------------------------
Pending == [tag |-> "Pending", p |-> Zero, msg |-> ""]
Processing(p) == [tag |-> "Processing", p |-> p, msg |-> ""]
Success == [tag |-> "Success", p |-> Zero, msg |-> ""]
Failed(m) == [tag |-> "Failed", p |-> Zero, msg |-> m]

IsTerminal(s) == s.tag \in {"Success", "Failed"}

ordinal(status) ==
    CASE status.tag = "Pending" -> 0
      [] status.tag = "Processing" -> 1
      [] status.tag = "Success" -> 2
      [] status.tag = "Failed" -> 3

\* Ord::cmp of Status: "lt", "eq" or "gt"
StatusCmp(a, b) ==
    IF ordinal(a) = ordinal(b) THEN
        IF a.tag = "Processing" THEN
            IF PartialCmp(a.p, b.p) = "none" THEN "eq" ELSE PartialCmp(a.p, b.p)
        ELSE "eq"
    ELSE IF ordinal(a) < ordinal(b) THEN "lt" ELSE "gt"

\* ------------------------------------------------------------------------
\* Archive (src/archive.rs) and the files the dialogs can return
\* ------------------------------------------------------------------------
\* What Archive::parse makes of a file: the format of its name, its
\* metadata length and the default status.
Archive(file) ==
    [path |-> file.path, format |-> file.format, size |-> file.size,
     status |-> Pending]

\* The Vec<Archive> a pick_files / pick_folder task can resolve to.
Picks ==
    { <<>>,
      <<Archive([path |-> "a.zip", format |-> "Zip", size |-> 2])>>,
      <<Archive([path |-> "a.zip", format |-> "Zip", size |-> 2]),
        Archive([path |-> "b.tar.gz", format |-> "TarGz", size |-> 1])>> }

\* The order of the keys of the two sort_by_key calls of App::update:
\* archive.status.clone() under Status::cmp, and archive.size.
KeyGt(key, a, b) ==
    IF key = "status" THEN StatusCmp(a.status, b.status) = "gt"
    ELSE a.size > b.size

\* slice::sort_by_key: a stable sort; for the short slices of the model it
\* is the insertion sort the standard library runs on them.
RECURSIVE Insert(_, _, _)
Insert(sorted, x, key) ==
    IF sorted = <<>> THEN <<x>>
    ELSE IF KeyGt(key, sorted[Len(sorted)], x)
         THEN Append(Insert(SubSeq(sorted, 1, Len(sorted) - 1), x, key),
                     sorted[Len(sorted)])
         ELSE Append(sorted, x)

RECURSIVE sort_by_key(_, _)
sort_by_key(seq, key) ==
    IF seq = <<>> THEN <<>>
    ELSE Insert(sort_by_key(SubSeq(seq, 1, Len(seq) - 1), key), seq[Len(seq)], key)

\* Vec::remove(index), index counted from 0
Remove(seq, index) ==
    SubSeq(seq, 1, index) \o SubSeq(seq, index + 2, Len(seq))

\* ------------------------------------------------------------------------
\* State of the application and of its batches
\* ------------------------------------------------------------------------
VARIABLES
    format,      \* App.format
    archives,    \* App.archives
    loading,     \* App.loading
    pickTasks,   \* pick_files / pick_folder tasks not yet resolved
    saveTasks,   \* pick_save_folder tasks not yet resolved
    crashed,     \* App::update panicked: the process is gone
    inputs,      \* messages the widgets have produced so far
    batches      \* the sippers started by SelectSaveFolder(Some), in order

appVars ==
    <<format, archives, loading, pickTasks, saveTasks, crashed, batches, inputs>>

\* What a worker's progress callback can be given (see ConvSpec).
ProgressSamples == {Ratio(1, 2)}

\* e.to_string() of the error convert returned and of the JoinError
ErrMessage(result) ==
    IF result = "Err" THEN "convert error" ELSE "task panicked"

Event(index, status, by) ==
    [type |-> "UpdateArchiveStatus", index |-> index, status |-> status, by |-> by]

CompletedMsg ==
    [type |-> "Completed", index |-> 0, status |-> Pending, by |-> "sipper"]

NoWorker ==
    [pc |-> "unspawned", tx |-> FALSE, btx |-> FALSE, left |-> MaxProgress,
     result |-> "none", terms |-> 0]

\* What App::update has been handed for one index of a batch, kept for the
\* properties: the number of events, the origin of the first, the terminal
\* status, and whether an event came after the terminal one.
NothingSeen == [n |-> 0, first |-> "none", final |-> Pending, late |-> FALSE]

Seen(old, m) ==
    [n |-> old.n + 1,
     first |-> IF old.n = 0 THEN m.by ELSE old.first,
     final |-> IF IsTerminal(old.final) THEN old.final
               ELSE IF IsTerminal(m.status) THEN m.status ELSE Pending,
     late |-> old.late \/ IsTerminal(old.final)]

\* The sipper created by SelectSaveFolder(Some(folder)): the captured
\* archives and format, the channel (tx, rx), one worker per archive.
NewBatch(items, target) ==
    [items |-> items, target |-> target,
     st |-> "dispatch", next |-> 0, tx |-> TRUE, rx |-> TRUE,
     w |-> [i \in 1..Len(items) |-> NoWorker],
     chan |-> <<>>, out |-> <<>>,
     seen |-> [i \in 1..Len(items) |-> NothingSeen],
     sent |-> 0, completed |-> 0, panics |-> 0]

\* What is left of a batch once its stream has ended and Message::Completed
\* has been handled: the sipper, its channel and its tasks are gone.
Finished(b) ==
    [NewBatch(<<>>, b.target) EXCEPT
        !.items = b.items, !.st = "completed", !.next = Len(b.items),
        !.tx = FALSE, !.rx = FALSE, !.completed = b.completed + 1,
        !.panics = b.panics]

\* Sender handles counted without the clone each worker task owns.
M_SendersWithoutTaskHandle(b) ==
    (IF b.tx THEN 1 ELSE 0)
    + Cardinality({i \in DOMAIN b.w : b.w[i].btx})

\* Sender handles of the batch's channel still alive.
Senders(b) ==
    (IF b.tx THEN 1 ELSE 0)
    + Cardinality({i \in DOMAIN b.w : b.w[i].tx})
    + Cardinality({i \in DOMAIN b.w : b.w[i].btx})

\* send_status: tx.send(..).expect(..) panics once the receiver is gone.
send_status(b, index, status, by) ==
    IF b.rx THEN [b EXCEPT !.chan = Append(@, Event(index, status, by)),
                           !.sent = @ + 1,
                           !.w[index + 1].terms =
                               IF by = "terminal" THEN @ + 1 ELSE @]
    ELSE [b EXCEPT !.panics = @ + 1]

Batches == 1..Len(batches)

\* Work units of the batches started so far
RECURSIVE Units(_)
Units(bs) == IF bs = <<>> THEN 0 ELSE Len(Head(bs).items) + Units(Tail(bs))

\* ------------------------------------------------------------------------
\* State of one Archive::convert call (ConvSpec) and of one ProcessRead
\* (ReadSpec); both stay idle under Spec.
\* ------------------------------------------------------------------------
VARIABLES
    job,         \* the archive being converted and the target format
    cpc,         \* where convert is: "idle", "open", "run", "ok", "err"
    entry,       \* index of the source entry being transcoded, from 1
    left,        \* bytes of that entry (of the file, in a copy) not yet read
    total_size,  \* the transcoder's total_size
    read_size,   \* the transcoder's read_size
    fractions,   \* every value passed to `process`, in order
    layers,      \* how each layer of the writer stack ended
    failure      \* the error a step of the conversion raised, "" if none

convVars ==
    <<job, cpc, entry, left, total_size, read_size, fractions, layers,
      failure>>

VARIABLES
    orig,        \* the bytes of the underlying reader at the start
    source,      \* bytes the underlying reader has not yet returned
    delivered,   \* bytes ProcessRead::read has returned to its consumer
    calls,       \* arguments the callback was invoked with, in order
    rets         \* per read: what the underlying read and ProcessRead returned

readVars == <<orig, source, delivered, calls, rets>>

VARIABLES
    feature7z,   \* whether the build has the cargo feature "7z"
    file_names,  \* the file names handed to Format::parse / convert
    target,      \* the target format of the conversions
    parsed,      \* Format::parse of each file name, once computed
    dests,       \* the destination file name of each conversion
    operands,    \* the Status values compared
    orders,      \* Status::cmp of each pair of operands, once computed
    paths,       \* the paths handed to Archive::parse and what is there
    descriptors, \* Archive::parse of each path, once computed
    bases        \* file_base of convert for each descriptor

pureVars ==
    <<feature7z, file_names, target, parsed, dests, operands, orders,
      paths, descriptors, bases>>

VARIABLES
    origin,      \* the container a round trip starts from
    via,         \* the format the round trip goes through
    box,         \* the container the last conversion produced
    hops         \* conversions made so far

tripVars == <<origin, via, box, hops>>

vars == <<appVars, convVars, readVars, pureVars, tripVars>>

\* ------------------------------------------------------------------------
\* App::update, message by message (src/app.rs)
\* ------------------------------------------------------------------------
AppOnly == UNCHANGED <<convVars, readVars, pureVars, tripVars>>

\* A message coming from a widget of the view
Widget == inputs < MaxInputs /\ inputs' = inputs + 1

\* An UpdateFormat whose format the batches in flight share instead of
\* holding a copy of it.
M_UpdateFormatShared(f) ==
    /\ Widget
    /\ ~crashed
    /\ format' = f
    /\ batches' = [b \in DOMAIN batches |->
                     IF batches[b].st = "completed" THEN batches[b]
                     ELSE [batches[b] EXCEPT !.target = f]]
    /\ UNCHANGED <<archives, loading, pickTasks, saveTasks, crashed>>
    /\ AppOnly

\* Message::UpdateFormat(format), from the pick_list, never disabled
UpdateFormat(f) ==
    /\ Widget
    /\ ~crashed
    /\ format' = f
    /\ UNCHANGED <<archives, loading, pickTasks, saveTasks, crashed, batches>>
    /\ AppOnly

\* Message::PickFiles: the button is enabled while !loading; the handler
\* starts the pick_files task.
PickFiles ==
    /\ Widget
    /\ ~crashed /\ ~loading
    /\ pickTasks < MaxPicks
    /\ pickTasks' = pickTasks + 1
    /\ UNCHANGED <<format, archives, loading, saveTasks, crashed, batches>>
    /\ AppOnly

\* Message::PickFolder: as PickFiles, with pick_folder(self.recursion)
PickFolder ==
    /\ Widget
    /\ ~crashed /\ ~loading
    /\ pickTasks < MaxPicks
    /\ pickTasks' = pickTasks + 1
    /\ UNCHANGED <<format, archives, loading, saveTasks, crashed, batches>>
    /\ AppOnly

\* Message::SelectArchives(archives): the pick task resolved to Ok
SelectArchives(picked) ==
    /\ UNCHANGED inputs
    /\ ~crashed
    /\ pickTasks > 0
    /\ Len(archives) + Len(picked) <= MaxArchives
    /\ pickTasks' = pickTasks - 1
    /\ archives' = sort_by_key(archives \o picked, "status")
    /\ UNCHANGED <<format, loading, saveTasks, crashed, batches>>
    /\ AppOnly

\* An Error handler that drops the archives loaded so far.
M_ErrorClearsArchives ==
    /\ UNCHANGED inputs
    /\ ~crashed
    /\ pickTasks > 0
    /\ pickTasks' = pickTasks - 1
    /\ archives' = <<>>
    /\ UNCHANGED <<format, loading, saveTasks, crashed, batches>>
    /\ UNCHANGED <<convVars, readVars, pureVars, tripVars>>

\* Message::Error(e): the pick task resolved to Err; only printed
Error ==
    /\ UNCHANGED inputs
    /\ ~crashed
    /\ pickTasks > 0
    /\ pickTasks' = pickTasks - 1
    /\ UNCHANGED <<format, archives, loading, saveTasks, crashed, batches>>
    /\ AppOnly

\* Whether Archive::view offers the remove button for the archive: the
\* hover is there unless the status is Processing, and the list is under
\* the mask layer while loading.
RemoveOffered(index) ==
    /\ ~loading
    /\ index < Len(archives)
    /\ archives[index + 1].status.tag # "Processing"

\* Message::RemoveArchive(index)
RemoveArchive(index) ==
    /\ Widget
    /\ ~crashed
    /\ RemoveOffered(index)
    /\ archives' = sort_by_key(Remove(archives, index), "size")
    /\ UNCHANGED <<format, loading, pickTasks, saveTasks, crashed, batches>>
    /\ AppOnly

\* Message::RemoveAll: the button is enabled while !loading
RemoveAll ==
    /\ Widget
    /\ ~crashed /\ ~loading
    /\ archives' = <<>>
    /\ UNCHANGED <<format, loading, pickTasks, saveTasks, crashed, batches>>
    /\ AppOnly

\* Message::Convert: the button is enabled while !loading; the handler
\* starts the pick_save_folder task and changes nothing else.
Convert ==
    /\ Widget
    /\ ~crashed /\ ~loading
    /\ saveTasks < MaxSaves
    /\ saveTasks' = saveTasks + 1
    /\ UNCHANGED <<format, archives, loading, pickTasks, crashed, batches>>
    /\ AppOnly

\* Message::SelectSaveFolder(Some(folder)): loading is set and the sipper
\* is created over a clone of the archives and a copy of the format.
SelectSaveFolderSome ==
    /\ UNCHANGED inputs
    /\ ~crashed
    /\ saveTasks > 0
    /\ Len(batches) < MaxBatches
    /\ Units(batches) + Len(archives) <= MaxUnits
    /\ saveTasks' = saveTasks - 1
    /\ loading' = TRUE
    /\ batches' = Append(batches, NewBatch(archives, format))
    /\ UNCHANGED <<format, archives, pickTasks, crashed>>
    /\ AppOnly

\* Message::SelectSaveFolder(None): the dialog was dismissed
SelectSaveFolderNone ==
    /\ UNCHANGED inputs
    /\ ~crashed
    /\ saveTasks > 0
    /\ saveTasks' = saveTasks - 1
    /\ UNCHANGED <<format, archives, loading, pickTasks, crashed, batches>>
    /\ AppOnly

\* Message::UpdateArchiveStatus(index, status), the next event of batch b's
\* stream: self.archives[index].status = status, which panics when index
\* is out of bounds.
UpdateArchiveStatus(b) ==
    /\ UNCHANGED inputs
    /\ ~crashed
    /\ batches[b].out # <<>>
    /\ Head(batches[b].out).type = "UpdateArchiveStatus"
    /\ LET m == Head(batches[b].out) IN
        /\ batches' = [batches EXCEPT ![b].out = Tail(@),
                                      ![b].seen[m.index + 1] = Seen(@, m)]
        /\ IF m.index < Len(archives)
           THEN /\ archives' = [archives EXCEPT ![m.index + 1].status = m.status]
                /\ UNCHANGED crashed
           ELSE /\ crashed' = TRUE
                /\ UNCHANGED archives
    /\ UNCHANGED <<format, loading, pickTasks, saveTasks>>
    /\ AppOnly

\* Message::Completed, the output of batch b's sipper
Completed(b) ==
    /\ UNCHANGED inputs
    /\ ~crashed
    /\ batches[b].out # <<>>
    /\ Head(batches[b].out).type = "Completed"
    /\ loading' = FALSE
    /\ batches' = [batches EXCEPT ![b] = Finished(@)]
    /\ UNCHANGED <<format, archives, pickTasks, saveTasks, crashed>>
    /\ AppOnly

\* ------------------------------------------------------------------------
\* The sipper of one batch and its workers (src/app.rs, lines 129-178)
\* ------------------------------------------------------------------------
BatchOnly ==
    /\ UNCHANGED inputs
    /\ UNCHANGED <<format, archives, loading, pickTasks, saveTasks, crashed>>
    /\ AppOnly

\* A for_each that spawns the worker before it sends Processing(0.): the
\* worker's first progress event can then get in ahead of it.
M_DispatchSpawnsFirst(b) ==
    /\ UNCHANGED inputs
    /\ ~crashed
    /\ batches[b].st = "dispatch"
    /\ batches[b].next < Len(batches[b].items)
    /\ LET index == batches[b].next
           early == send_status(batches[b], index,
                                Processing(Ratio(1, 2)), "progress")
           sent == send_status(early, index, Processing(Zero), "dispatch")
       IN batches' = [batches EXCEPT ![b] =
              [sent EXCEPT !.next = index + 1,
                           !.w[index + 1].pc = "blocking",
                           !.w[index + 1].tx = TRUE,
                           !.w[index + 1].btx = TRUE,
                           !.w[index + 1].left = @ - 1]]
    /\ UNCHANGED <<format, archives, loading, pickTasks, saveTasks, crashed>>
    /\ UNCHANGED <<convVars, readVars, pureVars, tripVars>>

\* One turn of the for_each: clone tx, send (index, Processing(0.)), spawn
\* the worker task, which owns the clone.
Dispatch(b) ==
    /\ ~crashed
    /\ batches[b].st = "dispatch"
    /\ batches[b].next < Len(batches[b].items)
    /\ LET index == batches[b].next
           sent == send_status(batches[b], index, Processing(Zero), "dispatch")
       IN batches' = [batches EXCEPT ![b] =
              [sent EXCEPT !.next = index + 1,
                           !.w[index + 1].pc = "spawned",
                           !.w[index + 1].tx = TRUE]]
    /\ BatchOnly

\* drop(tx) after the for_each; the sipper then waits in rx.recv()
DropTx(b) ==
    /\ ~crashed
    /\ batches[b].st = "dispatch"
    /\ batches[b].next = Len(batches[b].items)
    /\ batches' = [batches EXCEPT ![b].tx = FALSE, ![b].st = "drain"]
    /\ BatchOnly

\* The worker task starts: let _tx = tx.clone(); spawn_blocking(closure)
WorkerStart(b, i) ==
    /\ ~crashed
    /\ batches[b].w[i].pc = "spawned"
    /\ batches' = [batches EXCEPT ![b].w[i].pc = "blocking", ![b].w[i].btx = TRUE]
    /\ BatchOnly

\* A worker whose closure is still running, and reporting, after the task
\* has sent the terminal event.
M_WorkerProgressAfterEnd(b, i, ratio) ==
    /\ UNCHANGED inputs
    /\ ~crashed
    /\ batches[b].w[i].pc \in {"blocking", "done"}
    /\ batches[b].rx
    /\ batches[b].w[i].left > 0
    /\ LET sent == send_status(batches[b], i - 1, Processing(ratio), "progress")
       IN batches' = [batches EXCEPT ![b] = [sent EXCEPT !.w[i].left = @ - 1]]
    /\ UNCHANGED <<format, archives, loading, pickTasks, saveTasks, crashed>>
    /\ UNCHANGED <<convVars, readVars, pureVars, tripVars>>

\* archive.convert calls the progress closure: send_status(&_tx, index,
\* Status::Processing(ratio))
WorkerProgress(b, i, ratio) ==
    /\ ~crashed
    /\ batches[b].w[i].pc = "blocking"
    /\ batches[b].w[i].left > 0
    /\ LET sent == send_status(batches[b], i - 1, Processing(ratio), "progress")
       IN batches' = [batches EXCEPT ![b] = [sent EXCEPT !.w[i].left = @ - 1]]
    /\ BatchOnly

\* The blocking closure ends and _tx is dropped with it: convert returned
\* Ok or Err, or the closure panicked and the join handle yields Err.
WorkerJoin(b, i, result) ==
    /\ ~crashed
    /\ batches[b].w[i].pc = "blocking"
    /\ batches' = [batches EXCEPT ![b].w[i].pc = "joined",
                                  ![b].w[i].btx = FALSE,
                                  ![b].w[i].result = result]
    /\ BatchOnly

\* The status the worker task sends after the await
TerminalStatus(result) ==
    IF result = "Ok" THEN Success ELSE Failed(ErrMessage(result))

\* A worker task that reports a failure under every index of the batch.
M_WorkerTerminalFailsAll(b, i) ==
    /\ UNCHANGED inputs
    /\ ~crashed
    /\ batches[b].w[i].pc = "joined"
    /\ LET status == TerminalStatus(batches[b].w[i].result)
           sent == send_status(batches[b], i - 1, status, "terminal")
           other == IF i = 1 THEN Len(batches[b].items) ELSE 1
           all == IF status = Success \/ other = i THEN sent
                  ELSE send_status(sent, other - 1, status, "terminal")
       IN batches' = [batches EXCEPT ![b] =
              [all EXCEPT !.w[i].pc = "done", !.w[i].tx = FALSE]]
    /\ UNCHANGED <<format, archives, loading, pickTasks, saveTasks, crashed>>
    /\ UNCHANGED <<convVars, readVars, pureVars, tripVars>>

\* A worker task whose match has no arm for the JoinError.
M_WorkerTerminalNoJoinArm(b, i) ==
    /\ UNCHANGED inputs
    /\ ~crashed
    /\ batches[b].w[i].pc = "joined"
    /\ LET sent == IF batches[b].w[i].result = "JoinErr" THEN batches[b]
                   ELSE send_status(batches[b], i - 1,
                               TerminalStatus(batches[b].w[i].result), "terminal")
       IN batches' = [batches EXCEPT ![b] =
              [sent EXCEPT !.w[i].pc = "done", !.w[i].tx = FALSE]]
    /\ UNCHANGED <<format, archives, loading, pickTasks, saveTasks, crashed>>
    /\ UNCHANGED <<convVars, readVars, pureVars, tripVars>>

\* The match after .await: one send_status on tx, then the task ends and
\* tx is dropped.
WorkerTerminal(b, i) ==
    /\ ~crashed
    /\ batches[b].w[i].pc = "joined"
    /\ LET sent == send_status(batches[b], i - 1,
                               TerminalStatus(batches[b].w[i].result), "terminal")
       IN batches' = [batches EXCEPT ![b] =
              [sent EXCEPT !.w[i].pc = "done", !.w[i].tx = FALSE]]
    /\ BatchOnly

\* A receiver that reports the end as soon as its queue is empty.
M_ChannelClosedWhenEmpty(b) == batches[b].chan = <<>>

\* rx.recv() returns None: the queue is empty and no sender is left.
ChannelClosed(b) == batches[b].chan = <<>> /\ Senders(batches[b]) = 0

\* while let Some((index, status)) = rx.recv().await:
\*     sender.send((index, status)).await
Recv(b) ==
    /\ ~crashed
    /\ batches[b].st = "drain"
    /\ batches[b].chan # <<>>
    /\ Len(batches[b].out) < OutCap
    /\ batches' = [batches EXCEPT ![b].chan = Tail(@),
                                  ![b].out = Append(@, Head(batches[b].chan))]
    /\ BatchOnly

\* rx.recv() returned None: the loop and the sipper end, rx is dropped and
\* Task::sip maps the output to Message::Completed.
SipperEnds(b) ==
    /\ ~crashed
    /\ batches[b].st = "drain"
    /\ ChannelClosed(b)
    /\ batches' = [batches EXCEPT ![b].st = "done", ![b].rx = FALSE,
                                  ![b].out = Append(@, CompletedMsg)]
    /\ BatchOnly

\* ------------------------------------------------------------------------
\* The application
\* ------------------------------------------------------------------------
ConvIdle ==
    /\ job = [format |-> "Zip", target |-> "Zip", entries |-> <<>>,
              known |-> TRUE, len |-> 0]
    /\ cpc = "idle" /\ entry = 0 /\ left = 0 /\ total_size = 0
    /\ read_size = 0 /\ fractions = <<>>
    /\ layers = [container |-> "open", gzip |-> "open", buffer |-> "open"]
    /\ failure = ""

ReadIdle ==
    /\ orig = <<>> /\ source = <<>> /\ delivered = <<>> /\ calls = <<>>
    /\ rets = <<>>

PureIdle ==
    /\ feature7z = FALSE /\ file_names = <<>> /\ target = FormatDefault
    /\ parsed = <<>> /\ dests = <<>> /\ operands = <<>> /\ orders = <<>>
    /\ paths = <<>> /\ descriptors = <<>> /\ bases = <<>>

NoContainer == [format |-> FormatDefault, entries |-> <<>>]

TripIdle ==
    /\ origin = NoContainer /\ via = FormatDefault /\ box = NoContainer
    /\ hops = 0

\* App::default()
AppInit ==
    /\ format = FormatDefault
    /\ archives = <<>>
    /\ loading = FALSE
    /\ pickTasks = 0
    /\ saveTasks = 0
    /\ crashed = FALSE
    /\ batches = <<>>
    /\ inputs = 0

Init == AppInit /\ ConvIdle /\ ReadIdle /\ PureIdle /\ TripIdle

Next ==
    \/ \E f \in FormatALL : UpdateFormat(f)
    \/ PickFiles
    \/ PickFolder
    \/ \E picked \in Picks : SelectArchives(picked)
    \/ Error
    \/ \E index \in 0..(MaxArchives - 1) : RemoveArchive(index)
    \/ RemoveAll
    \/ Convert
    \/ SelectSaveFolderSome
    \/ SelectSaveFolderNone
    \/ \E b \in Batches : UpdateArchiveStatus(b)
    \/ \E b \in Batches : Completed(b)
    \/ \E b \in Batches : Dispatch(b)
    \/ \E b \in Batches : DropTx(b)
    \/ \E b \in Batches : \E i \in DOMAIN batches[b].w : WorkerStart(b, i)
    \/ \E b \in Batches : \E i \in DOMAIN batches[b].w :
           \E ratio \in ProgressSamples : WorkerProgress(b, i, ratio)
    \/ \E b \in Batches : \E i \in DOMAIN batches[b].w :
           \E result \in {"Ok", "Err", "JoinErr"} : WorkerJoin(b, i, result)
    \/ \E b \in Batches : \E i \in DOMAIN batches[b].w : WorkerTerminal(b, i)
    \/ \E b \in Batches : Recv(b)
    \/ \E b \in Batches : SipperEnds(b)

Spec == Init /\ [][Next]_vars

\* ------------------------------------------------------------------------
\* Properties of the batches (Spec)
\* ------------------------------------------------------------------------
\* Batches whose sipper still exists
Live == {b \in Batches : batches[b].st # "completed"}

Items(b) == DOMAIN batches[b].w

\* The events of batch b not yet handled by App::update, oldest first
Pipeline(b) ==
    LET IsEvent(m) == m.type = "UpdateArchiveStatus"
    IN SelectSeq(batches[b].out, IsEvent) \o batches[b].chan

\* Those of them that carry the index of item i
PipelineOf(b, i) ==
    LET Mine(m) == m.index = i - 1 IN SelectSeq(Pipeline(b), Mine)

Running(b, i) == batches[b].w[i].pc \in {"spawned", "blocking", "joined"}

Failures(b) == {i \in Items(b) : batches[b].w[i].result \in {"Err", "JoinErr"}}

\* C2: whatever the other items did, a running conversion can still end in
\* each of its ways, and every terminal event of an item is the one its own
\* conversion produced (Success for Ok, Failed for a failure); so when Completed is delivered for a batch of N items of
\* which exactly one failed, App::update has been handed N - 1 Success
\* events and one Failed event, one per item, and Completed comes once,
\* after all of them.
C2_FailureIsolated ==
    \A b \in Live :
        /\ \A i \in Items(b) :
              LET w == batches[b].w[i] IN
              /\ (w.pc = "blocking" /\ ~crashed) =>
                     \A result \in {"Ok", "Err", "JoinErr"} :
                         ENABLED WorkerJoin(b, i, result)
              /\ \A k \in 1..Len(PipelineOf(b, i)) :
                     PipelineOf(b, i)[k].by = "terminal" =>
                         PipelineOf(b, i)[k].status = TerminalStatus(w.result)
              /\ IsTerminal(batches[b].seen[i].final) =>
                     batches[b].seen[i].final = TerminalStatus(w.result)
        /\ (batches[b].out # <<>> /\ Head(batches[b].out).type = "Completed") =>
              /\ \A i \in Items(b) :
                     batches[b].seen[i].final =
                         TerminalStatus(batches[b].w[i].result)
              /\ Cardinality(Failures(b)) = 1 =>
                     /\ Cardinality({i \in Items(b) :
                            batches[b].seen[i].final = Success})
                          = Len(batches[b].items) - 1
                     /\ Cardinality({i \in Items(b) :
                            batches[b].seen[i].final.tag = "Failed"}) = 1
              /\ batches[b].completed = 0
              /\ Len(batches[b].out) = 1

\* Witness of C2: Completed is about to be handled for a batch of two
\* items of which exactly one failed.
C2_Witness ==
    \E b \in Live :
        /\ batches[b].out # <<>> /\ Head(batches[b].out).type = "Completed"
        /\ Len(batches[b].items) = 2
        /\ Cardinality(Failures(b)) = 1
        /\ \E i \in Items(b) : batches[b].seen[i].final = Success

RECURSIVE Sum(_, _)
Sum(f, S) ==
    IF S = {} THEN 0
    ELSE LET x == CHOOSE y \in S : TRUE IN f[x] + Sum(f, S \ {x})

\* Events of batch b that App::update has handled
Handled(b) == Sum([i \in Items(b) |-> batches[b].seen[i].n], Items(b))

CompletedsIn(b) ==
    LET IsCompleted(m) == m.type = "Completed"
    IN Len(SelectSeq(batches[b].out, IsCompleted))

\* C3: Completed is delivered at most once per batch and exactly once when
\* the stream has ended; it is produced only when the channel is closed,
\* that is when the queue is empty and the sipper's tx and both handles of
\* every worker are dropped; and when it is handled every event the batch
\* sent, the terminal event of every item included, has been handled as
\* UpdateArchiveStatus.
C3_CompletedOnceAfterAll ==
    \A b \in Batches :
        LET B == batches[b] IN
        /\ B.completed + CompletedsIn(b) <= 1
        /\ B.st \in {"dispatch", "drain"} => B.completed + CompletedsIn(b) = 0
        /\ B.st = "done" =>
              /\ CompletedsIn(b) = 1 /\ B.completed = 0
              /\ B.out[Len(B.out)].type = "Completed"
              /\ B.chan = <<>>
              /\ ~B.tx
              /\ \A i \in Items(b) : ~B.w[i].tx /\ ~B.w[i].btx /\ B.w[i].terms = 1
              /\ Handled(b) + Len(B.out) - 1 = B.sent
              /\ Head(B.out).type = "Completed" => Handled(b) = B.sent
        /\ B.st = "completed" => B.completed = 1 /\ B.out = <<>>

\* Witness of C3: Completed is the next message of a batch that sent the
\* six events of two items.
C3_Witness ==
    \E b \in Live :
        /\ batches[b].st = "done"
        /\ Head(batches[b].out).type = "Completed"
        /\ batches[b].sent = 6
        /\ Handled(b) = 6

\* C4: the first event handled for an item is the Processing(0.0) sent at
\* dispatch, and in the events still on their way to App::update that one
\* comes before every progress or terminal event of the item; the worker is
\* not spawned before it is sent.
C4_DispatchEventFirst ==
    \A b \in Live : \A i \in Items(b) :
        LET S == batches[b].seen[i]
            P == PipelineOf(b, i)
        IN
        /\ S.first \in {"none", "dispatch"}
        /\ (S.n = 0 /\ P # <<>>) =>
               P[1].by = "dispatch" /\ P[1].status = Processing(Zero)
        /\ S.n > 0 => \A k \in 1..Len(P) : P[k].by # "dispatch"
        /\ \A k \in 2..Len(P) : P[k].by # "dispatch"
        /\ (batches[b].w[i].pc # "unspawned") => (S.n > 0 \/ P # <<>>)

\* Witness of C4: a progress event of a worker has been handled after the
\* dispatch event of its item.
C4_Witness ==
    \E b \in Live : \E i \in Items(b) :
        /\ batches[b].seen[i].n = 2
        /\ batches[b].seen[i].first = "dispatch"
        /\ batches[b].w[i].left = 0

\* Whether this step is App::update handling an UpdateArchiveStatus
IsUpdateArchiveStatus ==
    \E b \in Batches :
        /\ batches[b].out # <<>>
        /\ Head(batches[b].out).type = "UpdateArchiveStatus"
        /\ batches'[b].out = Tail(batches[b].out)

\* C5 as stated: once a descriptor's status is Success or Failed, no
\* UpdateArchiveStatus changes it, also when further batches are started
\* over the same sequence.
C5_TerminalNeverLeft ==
    [][\A k \in 1..Len(archives) :
          (IsTerminal(archives[k].status) /\ IsUpdateArchiveStatus
              /\ Len(archives') = Len(archives))
          => archives'[k].status = archives[k].status]_vars

\* C5 as amended: within one batch no event of an item follows the item's
\* terminal event, neither among the events App::update has handled nor
\* among those on their way to it.
C5_NothingAfterTerminal ==
    \A b \in Live : \A i \in Items(b) :
        LET P == PipelineOf(b, i) IN
        /\ ~batches[b].seen[i].late
        /\ IsTerminal(batches[b].seen[i].final) => P = <<>>
        /\ \A k \in 1..Len(P) : P[k].by = "terminal" => k = Len(P)

\* Witness of C5: the terminal event of an item has been handled while the
\* batch is still in flight.
C5_Witness ==
    \E b \in Live : \E i \in Items(b) :
        /\ IsTerminal(batches[b].seen[i].final)
        /\ batches[b].seen[i].n = 3
        /\ batches[b].st = "drain"

\* ------------------------------------------------------------------------
\* Archive::convert and the transcoders (src/archive.rs), one call
\* ------------------------------------------------------------------------
\* Entries of the source archive in one conversion.
MaxEntries == 2
\* Largest size of an entry, and of the file in a same-format copy.
MaxSize == 2

\* Kinds of entry a source can hold: a tar header has entry types that are
\* neither Regular nor Directory (and may carry data), a zip or 7z entry
\* is a directory or a file.
EntryKinds(f) ==
    IF f = "TarGz" THEN {"file", "dir", "other"} ELSE {"file", "dir"}

EntriesOf(f) ==
    UNION {[1..n -> {e \in [kind : EntryKinds(f), size : 0..MaxSize] :
                        e.kind = "dir" => e.size = 0}] : n \in 0..MaxEntries}

\* The conversions convert is called with: a transcoding of a file into
\* another format, or the copy of a file.  `len` is the length of the
\* source file; a file to transcode has 0 bytes, and then holds no
\* container at all, or some bytes that are an archive of `entries`.
Jobs ==
    {j \in [format : Format, target : Format,
            entries : EntriesOf("TarGz"), known : BOOLEAN,
            len : {0, MaxSize}] :
        /\ j.format # j.target
        /\ j.entries \in EntriesOf(j.format)
        /\ j.format # "Zip" => j.known
        /\ j.len = 0 => (j.entries = <<>> /\ j.known)}
    \cup
    {[format |-> f, target |-> f, entries |-> <<>>, known |-> TRUE,
      len |-> n] : f \in Format, n \in 0..MaxSize}

\* convert without the arm of the pair (TarGz, SevenZ)
M_TranscoderMissingArm(j) ==
    CASE j.format = "Zip" /\ j.target = "TarGz" -> "zip_to_tar_gz"
      [] j.format = "TarGz" /\ j.target = "Zip" -> "tar_gz_to_zip"
      [] j.format = "Zip" /\ j.target = "SevenZ" -> "zip_to_seven_z"
      [] j.format = "SevenZ" /\ j.target = "Zip" -> "seven_z_to_zip"
      [] j.format = "SevenZ" /\ j.target = "TarGz" -> "seven_z_to_tar_gz"
      [] OTHER -> "copy"

\* match (self.format, format) of convert
Transcoder(j) ==
    CASE j.format = "Zip" /\ j.target = "TarGz" -> "zip_to_tar_gz"
      [] j.format = "TarGz" /\ j.target = "Zip" -> "tar_gz_to_zip"
      [] j.format = "Zip" /\ j.target = "SevenZ" -> "zip_to_seven_z"
      [] j.format = "SevenZ" /\ j.target = "Zip" -> "seven_z_to_zip"
      [] j.format = "SevenZ" /\ j.target = "TarGz" -> "seven_z_to_tar_gz"
      [] j.format = "TarGz" /\ j.target = "SevenZ" -> "tar_gz_to_seven_z"
      [] OTHER -> "copy"

RECURSIVE SizeSum(_, _)
SizeSum(es, kinds) ==
    IF es = <<>> THEN 0
    ELSE (IF Head(es).kind \in kinds THEN Head(es).size ELSE 0)
         + SizeSum(Tail(es), kinds)

\* get_tar_gz_decompress_size: the sizes of the entries whose type is_file
get_tar_gz_decompress_size(es) == SizeSum(es, {"file"})

\* The total_size each branch starts with
TotalSize(j) ==
    CASE Transcoder(j) \in {"zip_to_tar_gz", "zip_to_seven_z"} ->
            IF j.known THEN SizeSum(j.entries, {"file", "dir", "other"})
            ELSE U128Max
      [] Transcoder(j) \in {"tar_gz_to_zip", "tar_gz_to_seven_z"} ->
            get_tar_gz_decompress_size(j.entries)
      [] Transcoder(j) \in {"seven_z_to_tar_gz", "seven_z_to_zip"} ->
            SizeSum(j.entries, {"file", "dir", "other"})
      [] OTHER -> j.len

\* Whether the total is a size the source told (every case but the zip
\* whose decompressed_size() is None)
Known(j) == TotalSize(j) # U128Max

\* Entries handed to the target through a ProcessRead: every entry by the
\* two tar.gz writers (append_data), the entries that are not directories
\* by the two 7z writers (push_archive_entry with Some(reader)).
ThroughProcessRead(t, e) ==
    \/ t \in {"zip_to_tar_gz", "seven_z_to_tar_gz"}
    \/ t \in {"zip_to_seven_z", "tar_gz_to_seven_z"} /\ e.kind # "dir"

\* Entries the two zip writers copy with std::io::copy before one report
CopiedWhole(t, e) ==
    t \in {"tar_gz_to_zip", "seven_z_to_zip"} /\ e.kind # "dir"

\* The value a ProcessRead callback passes to `process` after
\* read_size += size
Reported(t, size, read, total) ==
    IF t = "tar_gz_to_seven_z" THEN Ratio(size, total)
    ELSE Ratio(read, total)

\* ProcessRead::read with a callback that is skipped for an empty read
M_ProcessRead_readSkipsEmpty(res) ==
    IF res.ok /\ res.size > 0 THEN [call |-> <<res.size>>, ret |-> res]
    ELSE [call |-> <<>>, ret |-> res]

\* ProcessRead::read with the callback made before the result is tested
M_ProcessRead_readCallsFirst(res) ==
    [call |-> <<res.size>>, ret |-> res]

\* ProcessRead::read on the result `res` of the read of the wrapped
\* reader: the arguments the callback is called with, and what is returned.
ProcessRead_read(res) ==
    IF res.ok THEN [call |-> <<res.size>>, ret |-> res]
    ELSE [call |-> <<>>, ret |-> res]

\* Results of a read of the wrapped reader
ReadOk(n, bytes) == [ok |-> TRUE, size |-> n, bytes |-> bytes, err |-> ""]
ReadFailed(e) == [ok |-> FALSE, size |-> 0, bytes |-> <<>>, err |-> e]
IoErrors == {"Interrupted", "Other"}

ConvOnly == UNCHANGED <<appVars, readVars, pureVars, tripVars>>

\* A source that ZipArchive::new and ArchiveReader::new cannot open: a
\* file of 0 bytes has no end-of-central-directory record and no 7z
\* signature header.  (What the gzip decoder makes of 0 bytes is left
\* open: the tar.gz source either opens with no entry or fails.)
NoArchive(j) ==
    j.format # j.target /\ j.len = 0 /\ j.format \in {"Zip", "SevenZ"}

\* The writer stack of a destination: the container writer, the gzip
\* encoder under a tar builder, the BufWriter of io!; the copy writes to
\* the File itself.
LayersOf(j) ==
    [container |-> IF j.format = j.target THEN "none" ELSE "open",
     gzip |-> IF j.format # j.target /\ j.target = "TarGz" THEN "open"
              ELSE "none",
     buffer |-> IF j.format = j.target THEN "none" ELSE "open"]

\* The source is opened and the total computed
ConvOpen ==
    /\ cpc = "open"
    /\ ~NoArchive(job)
    /\ total_size' = TotalSize(job)
    /\ read_size' = 0
    /\ entry' = 1
    /\ IF Transcoder(job) = "copy"
       THEN cpc' = "read" /\ left' = job.len
       ELSE cpc' = "entry" /\ left' = 0
    /\ layers' = LayersOf(job)
    /\ UNCHANGED <<job, fractions, failure>>
    /\ ConvOnly

\* An entry is handed to the target wrapped in a ProcessRead
ConvStartEntry ==
    /\ cpc = "entry" /\ entry <= Len(job.entries)
    /\ ThroughProcessRead(Transcoder(job), job.entries[entry])
    /\ cpc' = "read"
    /\ left' = job.entries[entry].size
    /\ UNCHANGED <<job, entry, total_size, read_size, fractions>>
    /\ UNCHANGED layers
    /\ UNCHANGED failure
    /\ ConvOnly

\* A directory entry is added to a zip or 7z target: nothing is reported
ConvAddDirectory ==
    /\ cpc = "entry" /\ entry <= Len(job.entries)
    /\ ~ThroughProcessRead(Transcoder(job), job.entries[entry])
    /\ ~CopiedWhole(Transcoder(job), job.entries[entry])
    /\ entry' = entry + 1
    /\ UNCHANGED <<job, cpc, left, total_size, read_size, fractions>>
    /\ UNCHANGED layers
    /\ UNCHANGED failure
    /\ ConvOnly

\* read_size += std::io::copy(entry, zip); process(read_size / total_size)
ConvCopyEntry ==
    /\ cpc = "entry" /\ entry <= Len(job.entries)
    /\ CopiedWhole(Transcoder(job), job.entries[entry])
    /\ read_size' = read_size + job.entries[entry].size
    /\ fractions' = Append(fractions, Ratio(read_size', total_size))
    /\ entry' = entry + 1
    /\ UNCHANGED <<job, cpc, left, total_size>>
    /\ UNCHANGED layers
    /\ UNCHANGED failure
    /\ ConvOnly

\* A read that skips the entry whose read failed and goes on
M_ConvReadSkipsBadEntry(res) ==
    /\ cpc = "read"
    /\ res.ok => /\ res.size <= left
                 /\ res.size = 0 <=> left = 0
    /\ LET r == ProcessRead_read(res)
           size == IF r.call = <<>> THEN 0 ELSE r.call[1]
       IN /\ read_size' = read_size + size
          /\ fractions' =
                IF r.call = <<>> THEN fractions
                ELSE Append(fractions,
                            Reported(Transcoder(job), size, read_size',
                                     total_size))
          /\ IF ~r.ret.ok
             THEN /\ cpc' = IF Transcoder(job) = "copy" THEN "ok"
                            ELSE "entry"
                  /\ failure' = r.ret.err
                  /\ entry' = entry + 1
                  /\ left' = 0
             ELSE IF r.ret.size > 0
             THEN cpc' = "read" /\ left' = left - r.ret.size
                  /\ UNCHANGED <<entry, failure>>
             ELSE /\ left' = 0
                  /\ entry' = entry + 1
                  /\ cpc' = IF Transcoder(job) = "copy" THEN "ok"
                            ELSE "entry"
                  /\ UNCHANGED failure
    /\ UNCHANGED <<job, total_size, layers>>
    /\ ConvOnly

\* One read the target makes of a ProcessRead: `n` bytes while some are
\* left, 0 at the end of the data, or an error of the source.
ConvRead(res) ==
    /\ cpc = "read"
    /\ res.ok => /\ res.size <= left
                 /\ res.size = 0 <=> left = 0
    /\ LET r == ProcessRead_read(res)
           size == IF r.call = <<>> THEN 0 ELSE r.call[1]
       IN /\ read_size' = read_size + size
          /\ fractions' =
                IF r.call = <<>> THEN fractions
                ELSE Append(fractions,
                            Reported(Transcoder(job), size, read_size',
                                     total_size))
          /\ IF ~r.ret.ok
             THEN /\ cpc' = "err" /\ failure' = r.ret.err
                  /\ UNCHANGED <<entry, left>>
             ELSE IF r.ret.size > 0
             THEN cpc' = "read" /\ left' = left - r.ret.size
                  /\ UNCHANGED <<entry, failure>>
             ELSE /\ left' = 0
                  /\ entry' = entry + 1
                  /\ cpc' = IF Transcoder(job) = "copy" THEN "ok"
                            ELSE "entry"
                  /\ UNCHANGED failure
    /\ UNCHANGED <<job, total_size, layers>>
    /\ ConvOnly

\* No entry is left
ConvEndOfEntries ==
    /\ cpc = "entry" /\ entry > Len(job.entries)
    /\ cpc' = "finish"
    /\ UNCHANGED <<job, entry, left, total_size, read_size, fractions>>
    /\ UNCHANGED layers
    /\ UNCHANGED failure
    /\ ConvOnly

\* finish() of the container writer, checked by `?`, then Ok(()) and the
\* drop of what is left of the stack.  The tar builder's finish() writes
\* the end blocks into the gzip encoder and leaves it and the BufWriter
\* to their Drop, which finish the gzip stream and flush the buffer and
\* discard the result (`gz`, `buf`).  The zip and 7z writers write into
\* the BufWriter, taken as emptied by their finish().
ConvFinish(done, gz, buf) ==
    /\ cpc = "finish"
    /\ IF ~done
       THEN /\ cpc' = "err"
            /\ failure' = "Finish"
            /\ layers' = [layers EXCEPT !.container = "err"]
       ELSE /\ cpc' = "ok"
            /\ UNCHANGED failure
            /\ layers' =
                 IF layers.gzip = "open"
                 THEN [container |-> "ok", gzip |-> gz, buffer |-> buf]
                 ELSE [layers EXCEPT !.container = "ok", !.buffer = "ok"]
    /\ UNCHANGED <<job, entry, left, total_size, read_size, fractions>>
    /\ ConvOnly

\* A `?` on opening the source or the destination, on reading the next
\* entry or on writing to the target: convert returns the error
ConvFail(e) ==
    /\ cpc \in {"open", "entry", "read"}
    /\ cpc' = "err"
    /\ failure' = e
    /\ UNCHANGED <<job, entry, left, total_size, read_size, fractions,
                   layers>>
    /\ ConvOnly

ConvInit ==
    /\ AppInit /\ ReadIdle /\ PureIdle /\ TripIdle
    /\ job \in Jobs
    /\ cpc = "open" /\ entry = 0 /\ left = 0 /\ total_size = 0
    /\ read_size = 0 /\ fractions = <<>>
    /\ layers = [container |-> "open", gzip |-> "open", buffer |-> "open"]
    /\ failure = ""

ConvNext ==
    \/ ConvOpen
    \/ ConvStartEntry
    \/ ConvAddDirectory
    \/ ConvCopyEntry
    \/ \E n \in 0..MaxSize : ConvRead(ReadOk(n, <<>>))
    \/ \E e \in IoErrors : ConvRead(ReadFailed(e))
    \/ ConvEndOfEntries
    \/ \E done \in BOOLEAN : \E gz, buf \in {"ok", "err"} :
           ConvFinish(done, gz, buf)
    \/ \E e \in IoErrors \cup {"Malformed"} : ConvFail(e)

ConvSpec == ConvInit /\ [][ConvNext]_vars

\* C6: within one conversion the sequence of fractions passed to the
\* progress callback is non-decreasing: no fraction is followed by a
\* smaller one, whatever the pair of formats.
C6_NonDecreasing ==
    \A k \in 1..(Len(fractions) - 1) :
        PartialCmp(fractions[k], fractions[k + 1]) # "gt"

\* C7: when a conversion whose total is known has succeeded, the last
\* fraction it reported is exactly 1.0.
C7_EndsAtOne ==
    (cpc = "ok" /\ Known(job) /\ fractions # <<>>)
        => fractions[Len(fractions)] = One

\* C8: every value passed to the progress callback lies in [0.0, 1.0]; in
\* particular none is the result of a division by a zero total.
C8_InUnit ==
    \A k \in 1..Len(fractions) : InUnit(fractions[k])

\* ------------------------------------------------------------------------
\* ProcessRead over a byte source (src/archive.rs)
\* ------------------------------------------------------------------------
\* Bytes the wrapped reader holds.
MaxLen == 3
\* Calls of ProcessRead::read in one run.
MaxReads == 3
\* Longest buffer a consumer passes to read.
MaxBuf == 2

Byte == {0, 1}

Sources == UNION {[1..n -> Byte] : n \in 0..MaxLen}

ReadOnly == UNCHANGED <<appVars, convVars, pureVars, tripVars>>

\* The callback given to ProcessRead::new records its argument, and the
\* consumer keeps the bytes of a read that returned Ok.
ProcessReadStep(res) ==
    LET r == ProcessRead_read(res)
    IN /\ calls' = calls \o r.call
       /\ delivered' =
            IF r.ret.ok THEN delivered \o r.ret.bytes ELSE delivered
       /\ rets' = Append(rets, [inner |-> res, ret |-> r.ret,
                                called |-> r.call])

\* self.read.read(buf) returns Ok(n): the next n bytes of the source, n at
\* most the length of buf, and 0 only for an empty buf or at the end
Read(cap, n) ==
    /\ Len(rets) < MaxReads
    /\ n <= cap /\ n <= Len(source)
    /\ n = 0 <=> (cap = 0 \/ source = <<>>)
    /\ source' = SubSeq(source, n + 1, Len(source))
    /\ ProcessReadStep(ReadOk(n, SubSeq(source, 1, n)))
    /\ UNCHANGED orig
    /\ ReadOnly

\* self.read.read(buf) returns Err(e): nothing is consumed
ReadErr(e) ==
    /\ Len(rets) < MaxReads
    /\ ProcessReadStep(ReadFailed(e))
    /\ UNCHANGED <<orig, source>>
    /\ ReadOnly

ReadInit ==
    /\ AppInit /\ ConvIdle /\ PureIdle /\ TripIdle
    /\ orig \in Sources
    /\ source = orig
    /\ delivered = <<>> /\ calls = <<>> /\ rets = <<>>

ReadNext ==
    \/ \E cap \in 0..MaxBuf : \E n \in 0..MaxBuf : Read(cap, n)
    \/ \E e \in IoErrors : ReadErr(e)

ReadSpec == ReadInit /\ [][ReadNext]_vars

\* C9: every read of the wrapped reader that returns N bytes calls the
\* callback exactly once, with N, and hands the consumer that same count
\* and those same bytes; so the callback arguments add up to the number of
\* bytes delivered, and the bytes delivered are the bytes of the source.
C9_CallbackPerRead ==
    /\ \A k \in 1..Len(rets) :
          rets[k].inner.ok =>
              /\ rets[k].called = <<rets[k].inner.size>>
              /\ rets[k].ret = rets[k].inner
    /\ Sum(calls, DOMAIN calls) = Len(delivered)
    /\ delivered \o source = orig

\* Reads of several sizes, an empty one included, have been made and some
\* byte has been delivered
C9_Witness ==
    /\ \E k \in 1..Len(rets) : rets[k].inner.ok /\ rets[k].inner.size = 2
    /\ \E k \in 1..Len(rets) : rets[k].inner.ok /\ rets[k].inner.size = 0
    /\ Len(calls) = 2 /\ Len(delivered) = 2

\* C10: a read of the wrapped reader that returns an error returns that
\* same error to the consumer, and the callback is not called for it: the
\* callback has been called once per read that succeeded and no more.
C10_ErrorPropagates ==
    /\ \A k \in 1..Len(rets) :
          ~rets[k].inner.ok =>
              /\ rets[k].ret = rets[k].inner
              /\ ~rets[k].ret.ok
              /\ rets[k].called = <<>>
    /\ Len(calls) = Cardinality({k \in 1..Len(rets) : rets[k].inner.ok})

\* A read has failed between two reads that succeeded
C10_Witness ==
    /\ Len(rets) = 3
    /\ rets[1].inner.ok /\ rets[1].inner.size > 0
    /\ ~rets[2].inner.ok /\ rets[2].ret.err = "Interrupted"
    /\ rets[3].inner.ok
    /\ Len(calls) = 2

\* ------------------------------------------------------------------------
\* File names and Format::parse (src/format.rs)
\* ------------------------------------------------------------------------
\* Dot-separated components of a file name.
MaxParts == 3

\* A file name is the sequence of its characters.
Chars(part) ==
    CASE part = "" -> <<>>
      [] part = "a" -> <<"a">>
      [] part = "zip" -> <<"z", "i", "p">>
      [] part = "azip" -> <<"a", "z", "i", "p">>
      [] part = "tar" -> <<"t", "a", "r">>
      [] part = "gz" -> <<"g", "z">>
      [] part = "7z" -> <<"7", "z">>
      [] part = "tar.gz" -> <<"t", "a", "r", ".", "g", "z">>

Parts == {"", "a", "zip", "azip", "tar", "gz", "7z"}

RECURSIVE Join(_)
Join(parts) ==
    IF Len(parts) = 1 THEN Chars(parts[1])
    ELSE Join(SubSeq(parts, 1, Len(parts) - 1)) \o <<".">>
         \o Chars(parts[Len(parts)])

\* The file names of the model: "a", "a.zip", ".tar.gz", "a.tar.gz",
\* "a.gz", "zip", "a.azip", "a.zip.7z", ...
Names == {Join(ps) : ps \in UNION {[1..n -> Parts] : n \in 1..MaxParts}}

\* str::ends_with
ends_with(str, suffix) ==
    /\ Len(str) >= Len(suffix)
    /\ SubSeq(str, Len(str) - Len(suffix) + 1, Len(str)) = suffix

\* Format::extension
extension(f) ==
    CASE f = "Zip" -> Chars("zip")
      [] f = "TarGz" -> Chars("tar.gz")
      [] f = "SevenZ" -> Chars("7z")

\* The formats of a build
Supported(with7z) == IF with7z THEN Format ELSE FormatALL

\* Format::parse with the suffix ".gz" taken for a tar.gz
M_Format_parseBareGz(file_name, with7z) ==
    IF ends_with(file_name, <<".">> \o Chars("zip")) THEN "Zip"
    ELSE IF ends_with(file_name, <<".">> \o Chars("gz")) THEN "TarGz"
    ELSE IF with7z /\ ends_with(file_name, <<".">> \o Chars("7z"))
    THEN "SevenZ"
    ELSE "None"

\* Format::parse: Some(format) is the format, None is "None"
Format_parse(file_name, with7z) ==
    IF ends_with(file_name, <<".">> \o Chars("zip")) THEN "Zip"
    ELSE IF ends_with(file_name, <<".">> \o Chars("tar.gz")) THEN "TarGz"
    ELSE IF with7z /\ ends_with(file_name, <<".">> \o Chars("7z"))
    THEN "SevenZ"
    ELSE "None"

PureOnly == UNCHANGED <<appVars, convVars, readVars, tripVars>>

\* Format::parse(file_name) is called
FormatParse ==
    /\ parsed = <<>> /\ file_names # <<>>
    /\ parsed' = [i \in DOMAIN file_names |->
                     Format_parse(file_names[i], feature7z)]
    /\ UNCHANGED <<feature7z, file_names, target, dests, operands, orders>>
    /\ UNCHANGED <<paths, descriptors, bases>>
    /\ PureOnly

ParseInit ==
    /\ AppInit /\ ConvIdle /\ ReadIdle /\ TripIdle
    /\ feature7z \in BOOLEAN
    /\ \E n \in Names : file_names = <<n>>
    /\ target = FormatDefault
    /\ parsed = <<>> /\ dests = <<>> /\ operands = <<>> /\ orders = <<>>
    /\ paths = <<>> /\ descriptors = <<>> /\ bases = <<>>

ParseNext == FormatParse

ParseSpec == ParseInit /\ [][ParseNext]_vars

\* The formats whose "." extension ends the name
Matching(file_name, with7z) ==
    {f \in Supported(with7z) : ends_with(file_name, <<".">> \o extension(f))}

\* C11: Format::parse returns Some(f) exactly when the name ends with "."
\* and the extension of a supported format f, and None otherwise; no name
\* matches two formats, so the order of the checks does not matter; a name
\* ending in ".tar.gz" gives TarGz, one ending in ".gz" only gives None.
C11_ParseBySuffix ==
    parsed # <<>> =>
        LET n == file_names[1]
            m == Matching(n, feature7z)
        IN /\ Cardinality(m) <= 1
           /\ \A f \in Supported(feature7z) : parsed[1] = f <=> f \in m
           /\ parsed[1] = "None" <=> m = {}
           /\ ends_with(n, Join(<<"", "tar", "gz">>)) => parsed[1] = "TarGz"
           /\ (/\ ends_with(n, Join(<<"", "gz">>))
               /\ ~ends_with(n, Join(<<"", "tar", "gz">>)))
                  => parsed[1] = "None"

\* A name ending in ".gz" but not in ".tar.gz" has been parsed
C11_Witness ==
    /\ parsed = <<"None">>
    /\ file_names = <<Join(<<"a", "zip", "gz">>)>>

\* ------------------------------------------------------------------------
\* Status::cmp over triples of Status values (src/status.rs)
\* ------------------------------------------------------------------------
\* The f32 values a Processing holds in the model: 0.0, 0.5, 1.0, and the
\* NaN and +inf a division by a zero total produces
Fractions == {Zero, Ratio(1, 2), One, Ratio(0, 0), Ratio(1, 0)}

Statuses ==
    {Pending, Success} \cup {Processing(p) : p \in Fractions}
    \cup {Failed(m) : m \in {"a", "b"}}

\* a.cmp(b) for every pair of operands
StatusCompare ==
    /\ orders = <<>> /\ operands # <<>>
    /\ orders' = [i \in DOMAIN operands |-> [j \in DOMAIN operands |->
                     StatusCmp(operands[i], operands[j])]]
    /\ UNCHANGED <<feature7z, file_names, target, parsed, dests, operands>>
    /\ UNCHANGED <<paths, descriptors, bases>>
    /\ PureOnly

CmpInit ==
    /\ AppInit /\ ConvIdle /\ ReadIdle /\ TripIdle
    /\ operands \in [1..3 -> Statuses]
    /\ feature7z = FALSE /\ file_names = <<>> /\ target = FormatDefault
    /\ parsed = <<>> /\ dests = <<>> /\ orders = <<>>
    /\ paths = <<>> /\ descriptors = <<>> /\ bases = <<>>

CmpNext == StatusCompare

CmpSpec == CmpInit /\ [][CmpNext]_vars

\* a <= b under Status::cmp
Le(i, j) == orders[i][j] \in {"lt", "eq"}

\* C12: Status::cmp is a total order: reflexive, antisymmetric up to
\* Equal, transitive and total, with Pending < Processing(p) < Success <
\* Failed(m), Processing(a) < Processing(b) exactly when a < b, and Failed
\* values of different messages Equal.
C12_TotalOrder ==
    orders # <<>> =>
        /\ \A i \in 1..3 : orders[i][i] = "eq"
        /\ \A i, j \in 1..3 :
              /\ orders[i][j] = "lt" <=> orders[j][i] = "gt"
              /\ orders[i][j] = "eq" <=> orders[j][i] = "eq"
              /\ Le(i, j) \/ Le(j, i)
              /\ ordinal(operands[i]) < ordinal(operands[j])
                    => orders[i][j] = "lt"
              /\ (operands[i].tag = "Processing"
                  /\ operands[j].tag = "Processing")
                    => (orders[i][j] = "lt" <=>
                          PartialCmp(operands[i].p, operands[j].p) = "lt")
              /\ (operands[i].tag = "Failed" /\ operands[j].tag = "Failed")
                    => orders[i][j] = "eq"
        /\ \A i, j, k \in 1..3 :
              /\ (Le(i, j) /\ Le(j, k)) => Le(i, k)
              /\ (orders[i][j] = "eq" /\ orders[j][k] = "eq")
                    => orders[i][k] = "eq"

\* ------------------------------------------------------------------------
\* What the transcoders write: round trips (src/archive.rs)
\* ------------------------------------------------------------------------
\* Entries of the container a round trip starts from.
MaxTripEntries == 2

\* The unix mode an entry carries: a zip entry may have none
\* (unix_mode() is an Option), a 7z entry written by ArchiveEntry::new_file
\* or new_directory has none.
Modes(f) ==
    CASE f = "Zip" -> {"644", "755", "none"}
      [] f = "TarGz" -> {"644", "755"}
      [] f = "SevenZ" -> {"none"}

TripEntries(f) ==
    {e \in [name : {"f", "d"}, kind : {"file", "dir"}, mode : Modes(f),
            data : {<<>>, <<1>>}] : e.kind = "dir" => e.data = <<>>}

Containers ==
    UNION {{[format |-> f, entries |-> es] :
               es \in UNION {[1..n -> TripEntries(f)]
                               : n \in 0..MaxTripEntries}} : f \in Format}

\* What each transcoder writes for the entries it reads, when no step
\* fails.  Name and content are passed on; the kind is Directory or
\* Regular by is_dir; the mode is the one each writer is given.
zip_to_tar_gz(es) ==
    [i \in DOMAIN es |->
        [es[i] EXCEPT !.mode = IF @ = "none" THEN "644" ELSE @]]

tar_gz_to_zip(es) == es

tar_gz_to_seven_z(es) == [i \in DOMAIN es |-> [es[i] EXCEPT !.mode = "none"]]

seven_z_to_tar_gz(es) == [i \in DOMAIN es |-> [es[i] EXCEPT !.mode = "644"]]

seven_z_to_zip(es) == [i \in DOMAIN es |-> [es[i] EXCEPT !.mode = "644"]]

zip_to_seven_z(es) == [i \in DOMAIN es |-> [es[i] EXCEPT !.mode = "none"]]

\* Archive::convert of a container to the format `to`: the container
\* written at the destination
convert(c, to) ==
    [format |-> to,
     entries |->
        CASE c.format = "Zip" /\ to = "TarGz" -> zip_to_tar_gz(c.entries)
          [] c.format = "TarGz" /\ to = "Zip" -> tar_gz_to_zip(c.entries)
          [] c.format = "Zip" /\ to = "SevenZ" -> zip_to_seven_z(c.entries)
          [] c.format = "SevenZ" /\ to = "Zip" -> seven_z_to_zip(c.entries)
          [] c.format = "SevenZ" /\ to = "TarGz" ->
                seven_z_to_tar_gz(c.entries)
          [] c.format = "TarGz" /\ to = "SevenZ" ->
                tar_gz_to_seven_z(c.entries)
          [] OTHER -> c.entries]

TripOnly == UNCHANGED <<appVars, convVars, readVars, pureVars>>

\* The container is converted to `via`, and the result back
TripConvert ==
    /\ hops < 2
    /\ box' = convert(box, IF hops = 0 THEN via ELSE origin.format)
    /\ hops' = hops + 1
    /\ UNCHANGED <<origin, via>>
    /\ TripOnly

TripInit ==
    /\ AppInit /\ ConvIdle /\ ReadIdle /\ PureIdle
    /\ origin \in Containers
    /\ via \in Format \ {origin.format}
    /\ box = origin
    /\ hops = 0

TripNext == TripConvert

TripSpec == TripInit /\ [][TripNext]_vars

\* The permission bits an entry stands for: a zip entry without a unix
\* mode and a 7z entry are files of the default mode 0o644
Perm(e) == IF e.mode = "none" THEN "644" ELSE e.mode

SameEntries(es, fs) ==
    /\ Len(es) = Len(fs)
    /\ \A i \in DOMAIN es :
          /\ es[i].name = fs[i].name
          /\ es[i].kind = fs[i].kind
          /\ es[i].data = fs[i].data
          /\ Perm(es[i]) = Perm(fs[i])

\* C13: for every ordered pair of distinct formats (A, B), converting a
\* container of format A to B and the result back to A yields a container
\* whose entries have the names, kinds, permission bits and content of the
\* original.
C13_RoundTrip ==
    hops = 2 => /\ box.format = origin.format
                /\ SameEntries(origin.entries, box.entries)

\* ------------------------------------------------------------------------
\* Further properties of one conversion (ConvSpec)
\* ------------------------------------------------------------------------
\* C14: in every transcoder a directory entry of the source is written as
\* a marker only: no read of entry data is attempted for it, so no data
\* copy is made and no progress callback is triggered by it.
C14_NoReadOfDirectory ==
    /\ (cpc = "read" /\ Transcoder(job) # "copy")
          => job.entries[entry].kind # "dir"
    /\ (fractions # <<>> /\ Transcoder(job) # "copy")
          => \E i \in DOMAIN job.entries : job.entries[i].kind # "dir"

\* C15: convert returns Ok only after the destination has been finalized
\* and every layer of the writer stack (container writer, gzip encoder,
\* buffered file writer) has been flushed without error.
C15_SuccessAfterFlush ==
    cpc = "ok" =>
        /\ layers.container \in {"ok", "none"}
        /\ layers.gzip \in {"ok", "none"}
        /\ layers.buffer \in {"ok", "none"}

C17_EmptySourceConverts ==
    (cpc = "open" /\ job.len = 0) => ENABLED ConvOpen

\* ------------------------------------------------------------------------
\* The destination of a conversion (Archive::convert, src/archive.rs)
\* ------------------------------------------------------------------------
\* The names Archive::parse makes an Archive of
ArchiveNames(with7z) == {n \in Names : Format_parse(n, with7z) # "None"}

\* str::strip_suffix(..).unwrap()
strip_suffix(str, suffix) ==
    IF ends_with(str, suffix) THEN SubSeq(str, 1, Len(str) - Len(suffix))
    ELSE <<"panic">>

\* file_base of convert
file_base(file_name, f) == strip_suffix(file_name, <<".">> \o extension(f))

\* What convert runs for an archive named file_name of format f and the
\* target format `to`, and the file name it joins to the folder
Destination(file_name, f, to) ==
    LET t == Transcoder([format |-> f, target |-> to])
    IN [via |-> t,
        name |-> IF t = "copy" THEN file_name
                 ELSE file_base(file_name, f) \o <<".">> \o extension(to)]

\* convert is called for every archive of the batch
ConvertDestinations ==
    /\ parsed # <<>> /\ dests = <<>>
    /\ dests' = [i \in DOMAIN file_names |->
                    Destination(file_names[i], parsed[i], target)]
    /\ UNCHANGED <<feature7z, file_names, target, parsed, operands, orders>>
    /\ UNCHANGED <<paths, descriptors, bases>>
    /\ PureOnly

DestInit ==
    /\ AppInit /\ ConvIdle /\ ReadIdle /\ TripIdle
    /\ feature7z \in BOOLEAN
    /\ file_names \in [1..2 -> ArchiveNames(feature7z)]
    /\ target \in Supported(feature7z)
    /\ parsed = <<>> /\ dests = <<>> /\ operands = <<>> /\ orders = <<>>
    /\ paths = <<>> /\ descriptors = <<>> /\ bases = <<>>

DestNext == FormatParse \/ ConvertDestinations

DestSpec == DestInit /\ [][DestNext]_vars

snake(f) ==
    CASE f = "Zip" -> "zip" [] f = "TarGz" -> "tar_gz"
      [] f = "SevenZ" -> "seven_z"

\* C18: convert takes the raw copy to folder/<file name> exactly when the
\* source and target formats are equal, and for a pair of distinct formats
\* runs the transcoder of that pair with folder/<base>.<extension of the
\* target>, <base> being the file name without its format suffix.
C18_DispatchOnPair ==
    dests # <<>> =>
        \A i \in DOMAIN dests :
            /\ dests[i].via = "copy" <=> parsed[i] = target
            /\ parsed[i] = target => dests[i].name = file_names[i]
            /\ parsed[i] # target =>
                  /\ dests[i].via
                        = snake(parsed[i]) \o "_to_" \o snake(target)
                  /\ \E base \in {SubSeq(file_names[i], 1, k) :
                                    k \in 0..Len(file_names[i])} :
                        /\ file_names[i]
                              = base \o <<".">> \o extension(parsed[i])
                        /\ dests[i].name
                              = base \o <<".">> \o extension(target)

\* A tar.gz has been dispatched to the 7z transcoder and a 7z copied
C18_Witness ==
    /\ dests # <<>>
    /\ target = "SevenZ"
    /\ file_names = <<Join(<<"a", "tar", "gz">>), Join(<<"a", "7z">>)>>
    /\ dests[1] = [via |-> "tar_gz_to_seven_z", name |-> Join(<<"a", "7z">>)]
    /\ dests[2].via = "copy"

\* C20: within one batch, two items whose source file names are distinct
\* are given distinct destination paths.
C20_DistinctDestinations ==
    (dests # <<>> /\ file_names[1] # file_names[2])
        => dests[1].name # dests[2].name

\* ------------------------------------------------------------------------
\* The archive sequence while a batch is in flight (Spec)
\* ------------------------------------------------------------------------
\* C19: while a batch is in flight no message reorders or resizes the
\* archive sequence, so every UpdateArchiveStatus(i, s) about to be handled
\* finds at index i the descriptor whose path work unit i of its batch is
\* converting.
C19_AppliedToOwnDescriptor ==
    \A b \in Batches :
        (/\ batches[b].out # <<>>
         /\ Head(batches[b].out).type = "UpdateArchiveStatus")
        => LET i == Head(batches[b].out).index IN
           /\ i < Len(archives)
           /\ archives[i + 1].path = batches[b].items[i + 1].path

C22_BatchFixedAtStart ==
    [][/\ Len(batches') >= Len(batches)
       /\ \A b \in Batches :
             /\ batches'[b].items = batches[b].items
             /\ batches'[b].target = batches[b].target
       /\ Len(batches') > Len(batches) =>
             /\ batches'[Len(batches')].items = archives
             /\ batches'[Len(batches')].target = format]_vars

\* A batch in flight converts to a format that is no longer the selected
\* one, files that are no longer the archive sequence
C22_Witness ==
    \E b \in Live :
        /\ batches[b].target # format
        /\ batches[b].items # <<>>
        /\ Len(archives) # Len(batches[b].items)
        /\ \E i \in Items(b) : batches[b].w[i].pc = "blocking"

\* The descriptors of the archive sequence with path p that show a
\* terminal status, a Failed one with its message
TerminalOf(p) ==
    {k \in DOMAIN archives :
        /\ archives[k].path = p
        /\ IsTerminal(archives[k].status)
        /\ archives[k].status.tag = "Failed" => archives[k].status.msg # ""}

\* C23: when Message::Completed of a batch is about to be handled, every
\* descriptor dispatched in that batch has status Success or Failed in the
\* archive sequence (none is left Pending or Processing), and a Failed
\* status carries the message of the error.  Descriptors are told apart
\* by their path: as many descriptors of a path are terminal as the batch
\* has dispatched.
C23_AllTerminalAtCompleted ==
    \A b \in Batches :
        (batches[b].out # <<>> /\ Head(batches[b].out).type = "Completed")
        => \A i \in 1..Len(batches[b].items) :
              Cardinality(TerminalOf(batches[b].items[i].path))
                 >= Cardinality({j \in 1..Len(batches[b].items) :
                       batches[b].items[j].path = batches[b].items[i].path})

\* ------------------------------------------------------------------------
\* Scheduling (FairSpec): the tokio runtime polls every spawned task that
\* can make progress, a transcoder call returns, and the iced runtime
\* hands every message of a stream to App::update.
\* ------------------------------------------------------------------------
\* A step of the sipper of batch b: the for_each, drop(tx), the recv loop
SipperStep(b) ==
    /\ b \in Batches
    /\ Dispatch(b) \/ DropTx(b) \/ Recv(b) \/ SipperEnds(b)

\* A step of worker i of batch b that does not depend on the progress
\* callback: the task starts, the blocking closure returns, the task sends
\* the terminal status.
WorkerStep(b, i) ==
    /\ b \in Batches
    /\ i \in DOMAIN batches[b].w
    /\ \/ WorkerStart(b, i)
       \/ \E result \in {"Ok", "Err", "JoinErr"} : WorkerJoin(b, i, result)
       \/ WorkerTerminal(b, i)

\* The runtime handing the next message of batch b's stream to App::update
DeliverStep(b) ==
    /\ b \in Batches
    /\ UpdateArchiveStatus(b) \/ Completed(b)

Fairness ==
    /\ \A b \in 1..MaxBatches : WF_vars(SipperStep(b))
    /\ \A b \in 1..MaxBatches : WF_vars(DeliverStep(b))
    /\ \A b \in 1..MaxBatches : \A i \in 1..MaxUnits : WF_vars(WorkerStep(b, i))

FairSpec == Spec /\ Fairness

\* Batch n has been started
Started(n) == Len(batches) >= n

\* Message::Completed of batch n has been handled
Delivered(n) == Len(batches) >= n /\ batches[n].st = "completed"

\* C24: every started batch eventually delivers Message::Completed, each
\* transcoder call terminating and the scheduling being fair.
C24_BatchTerminates ==
    \A n \in 1..MaxBatches : Started(n) ~> Delivered(n)

\* C24, second part: a batch started with an empty sequence sends no
\* (index, Status) event at all, so Completed is the first message of its
\* stream.
C24_EmptyBatchOnlyCompletes ==
    \A b \in Batches :
        batches[b].items = <<>>
        => /\ batches[b].sent = 0
           /\ batches[b].chan = <<>>
           /\ \A k \in DOMAIN batches[b].out : batches[b].out[k].type = "Completed"

\* C25: when a pick task fails, Message::Error is handled and leaves the
\* archive sequence (every descriptor and status), the selected format and
\* the loading flag as they were; the sequence grows only in the handling
\* of a SelectArchives message, by the descriptors of a pick that
\* succeeded as a whole.
C25_ErrorChangesNothing ==
    [][/\ Error => UNCHANGED <<archives, format, loading>>
       /\ Len(archives') > Len(archives)
             => \E picked \in Picks : SelectArchives(picked)]_vars

\* A failed pick is about to be reported while a batch is in flight and a
\* descriptor already shows a status of its conversion.
C25_Witness ==
    /\ ENABLED Error
    /\ loading
    /\ \E k \in DOMAIN archives : archives[k].status # Pending

\* C26: at most one batch is in flight at any time, and loading is true
\* exactly while one is: loading is false only when no sipper, worker or
\* undelivered event of a batch is left.
C26_OneBatchInFlight ==
    /\ Cardinality(Live) <= 1
    /\ loading <=> Live # {}

\* C27: every UpdateArchiveStatus(index, ..) about to be handled, and every
\* RemoveArchive(index) the view can send, carries an index below the
\* length of the archive sequence: self.archives[index] and
\* self.archives.remove(index) never go out of bounds and App::update does
\* not panic.
C27_IndexInBounds ==
    /\ ~crashed
    /\ \A b \in Batches :
          (batches[b].out # <<>> /\ Head(batches[b].out).type = "UpdateArchiveStatus")
          => Head(batches[b].out).index < Len(archives)
    /\ \A index \in 0..(MaxArchives - 1) :
          ENABLED RemoveArchive(index) => index < Len(archives)

\* ------------------------------------------------------------------------
\* Archive::parse and the file_base of convert (src/archive.rs)
\* ------------------------------------------------------------------------
\* The largest metadata length of a file of the model
MaxFileLen == 1

\* What std::fs::metadata finds at a path: a regular file, a directory,
\* or nothing (the call fails).
FileKinds == {"file", "dir", "absent"}

\* A path: the characters of its final component, whether that component
\* is valid UTF-8 (to_str), what is there and the metadata length.
Paths ==
    [name : Names, utf8 : BOOLEAN, kind : FileKinds, len : 0..MaxFileLen]

ParseErr == [tag |-> "Err", archive |-> <<>>]
ParseNone == [tag |-> "None", archive |-> <<>>]
ParseSome(archive) == [tag |-> "Some", archive |-> <<archive>>]

\* An Archive::parse that does not look at metadata.is_file().
M_Archive_parseTakesDirectories(p, with7z) ==
    IF p.kind = "absent" THEN ParseErr
    ELSE IF ~p.utf8 THEN ParseNone
    ELSE IF Format_parse(p.name, with7z) = "None" THEN ParseNone
    ELSE ParseSome([path |-> p.name, format |-> Format_parse(p.name, with7z),
                    size |-> p.len, status |-> Pending])

\* Archive::parse(path): Err when metadata fails, Ok(None) for what is not
\* a regular file, for a name that is not UTF-8 and for a name
\* Format::parse does not recognise, Ok(Some(Archive {..})) otherwise.
Archive_parse(p, with7z) ==
    IF p.kind = "absent" THEN ParseErr
    ELSE IF p.kind # "file" THEN ParseNone
    ELSE IF ~p.utf8 THEN ParseNone
    ELSE IF Format_parse(p.name, with7z) = "None" THEN ParseNone
    ELSE ParseSome([path |-> p.name, format |-> Format_parse(p.name, with7z),
                    size |-> p.len, status |-> Pending])

\* Archive::parse is called for every path
ArchiveParse ==
    /\ descriptors = <<>> /\ paths # <<>>
    /\ descriptors' = [i \in DOMAIN paths |-> Archive_parse(paths[i], feature7z)]
    /\ UNCHANGED <<feature7z, file_names, target, parsed, dests, operands,
                   orders, paths, bases>>
    /\ PureOnly

\* convert is called on every descriptor parse has made and computes
\* file_base from the descriptor's path and format
ConvertFileBase ==
    /\ descriptors # <<>> /\ bases = <<>>
    /\ \A i \in DOMAIN descriptors : descriptors[i].tag = "Some"
    /\ bases' = [i \in DOMAIN descriptors |->
                    file_base(descriptors[i].archive[1].path,
                              descriptors[i].archive[1].format)]
    /\ UNCHANGED <<feature7z, file_names, target, parsed, dests, operands,
                   orders, paths, descriptors>>
    /\ PureOnly

ArchiveInit ==
    /\ AppInit /\ ConvIdle /\ ReadIdle /\ TripIdle
    /\ feature7z \in BOOLEAN
    /\ \E p \in Paths : paths = <<p>>
    /\ file_names = <<>> /\ target = FormatDefault
    /\ parsed = <<>> /\ dests = <<>> /\ operands = <<>> /\ orders = <<>>
    /\ descriptors = <<>> /\ bases = <<>>

ArchiveNext == ArchiveParse \/ ConvertFileBase

ArchiveSpec == ArchiveInit /\ [][ArchiveNext]_vars

\* C28: Archive::parse returns a descriptor exactly for a regular file
\* whose name ends with the suffix of a supported format, with that
\* format, the metadata length as size and status Pending, and none for a
\* directory or any other name; the name of every descriptor ends with
\* the suffix of its format, so the strip_suffix(..).unwrap() of convert
\* does not panic.
C28_ParseMakesConvertible ==
    descriptors # <<>> =>
        LET p == paths[1]
            r == descriptors[1]
            m == IF p.utf8 THEN Matching(p.name, feature7z) ELSE {}
        IN /\ r.tag = "Some" <=> (p.kind = "file" /\ m # {})
           /\ p.kind = "dir" => r.tag = "None"
           /\ (p.kind = "file" /\ m = {}) => r.tag = "None"
           /\ r.tag = "Some" =>
                 /\ r.archive[1].format \in m
                 /\ r.archive[1].size = p.len
                 /\ r.archive[1].status = Pending
                 /\ r.archive[1].path = p.name
                 /\ ends_with(r.archive[1].path,
                              <<".">> \o extension(r.archive[1].format))
           /\ bases # <<>> =>
                 /\ bases[1] # <<"panic">>
                 /\ bases[1] \o <<".">> \o extension(r.archive[1].format)
                       = p.name

\* convert has computed the base "zip" of the tar.gz file "zip.tar.gz"
C28_Witness ==
    /\ bases = <<Chars("zip")>>
    /\ descriptors[1].tag = "Some"
    /\ descriptors[1].archive[1].format = "TarGz"
    /\ descriptors[1].archive[1].size = MaxFileLen
    /\ paths[1].name = Join(<<"zip", "tar", "gz">>)

====
